---- MODULE Spec2Model ----
(***************************************************************************)
(* SleepNice: the alarm evaluation loop (components/AlarmClock.tsx over    *)
(* services/db), the recording session controller (SleepTracker), the      *)
(* navigation shell (App), the analysis gateway (netlify function) and the *)
(* dashboard aggregates, as state machines.                                *)
(*                                                                         *)
(* Strings "HH:MM" are tuples of their four digits (the colon is at the    *)
(* same place in every time string).  The epoch of the clock is a Sunday   *)
(* 00:00:00 local time, counted in seconds.  Date.now() ids are renumbered *)
(* densely: only their order and equality are observable.                  *)
(***************************************************************************)
EXTENDS Integers, Sequences, FiniteSets, TLC

VARIABLES
    activeView,           \* App: 'alarms' | 'dashboard' | 'sleep'
    isTracking,           \* App: hides the navigation bar
    now,                  \* wall clock, seconds since Sunday 00:00:00
    ticked,               \* the interval callback of this second has run
    lastStamp,            \* the last value Date.now() returned (renumbered)
    stampFresh,           \* a millisecond has passed since that reading
    alarmStore,           \* IndexedDB store 'alarms': id -> record
    pending,              \* IndexedDB requests in flight, in transaction order
    alarms,               \* AlarmClock state: the in-memory list
    ringingAlarm,         \* AlarmClock state: <<>> (null) or <<alarm>>
    ignoreForThisMinute,  \* AlarmClock state: the suppression list of ids
    timers,               \* pending setTimeout(.., 61000) callbacks
    fired,                \* ids of one-shot alarms that have entered ringing and
                          \* that the user has not switched on again since
    rejected,             \* a request on the alarms store has been rejected
    deadline,             \* the wall-clock second at which the behaviour ends
    editsLeft,            \* add/toggle/delete actions the user may still take
    navLeft,              \* navigation actions the user may still take
    tracker,              \* SleepTracker: state, refs and the objects they own
    mediaDevices,         \* navigator.mediaDevices?.getUserMedia is defined
    sessionStore,         \* IndexedDB store 'sleepHistory': date -> record
    starts,               \* recording sessions the user has started
    gwEvent,              \* gateway: <<>> or <<the HandlerEvent received>>
    gwRemote,             \* gateway: <<>> or <<what generateContent did>>
    gwResponse,           \* gateway: <<>> or <<the response returned>>
    history,              \* Dashboard state: the loaded sessions
    timeRange,            \* Dashboard state: 'week' | 'month' | 'year'
    historyLoad           \* Dashboard: getSleepHistory() is in flight

alarmVars == <<now, ticked, lastStamp, stampFresh, alarmStore, pending, alarms,
               ringingAlarm, ignoreForThisMinute, timers, fired,
               rejected>>
boundVars == <<deadline, editsLeft, navLeft>>
appVars == <<activeView, isTracking>>
trackerVars == <<tracker, mediaDevices, sessionStore, starts>>
gatewayVars == <<gwEvent, gwRemote, gwResponse>>
dashVars == <<history, timeRange, historyLoad>>
vars == <<appVars, alarmVars, boundVars, trackerVars, gatewayVars, dashVars>>

----------------------------------------------------------------------------
(* Bounds of the model *)

MaxAlarms == 3        \* alarms stored or being added
MaxStamp == 2         \* distinct Date.now() readings used as ids
MaxPending == 2       \* store requests a user action may queue behind
MaxNav == 2           \* navigation actions in a behaviour
\* Two kinds of behaviour: a few seconds around 07:00:00 with the user editing
\* the alarms, and a whole minute and more over alarms stored beforehand.
EditElapsed == 5      \* seconds covered when the user edits
EditEdits == 2        \* add/toggle/delete actions when the user edits
EditSeed == 1         \* alarms stored beforehand when the user edits
MinuteElapsed == 66   \* seconds covered over stored alarms
MinuteEdits == 0      \* add/toggle/delete actions over stored alarms
MinuteSeed == 2       \* alarms stored beforehand
UserSeconds == 3      \* the user acts in the first and last seconds of a minute

\* Monday 06:59:58: the window covers 07:00 whole and the start of 07:01.
StartClock == 1 * 86400 + 6 * 3600 + 59 * 60 + 58
AlarmTimes == {<<0, 7, 0, 0>>, <<0, 7, 0, 1>>}
DayChoices == {{}, {1}, {2}}

----------------------------------------------------------------------------
(* Program constants *)

SuppressSeconds == 61
IntervalSeconds == 1

----------------------------------------------------------------------------
(* Clock formatting: checkAlarms' currentTime and currentDay *)

Pad2(n) == <<n \div 10, n % 10>>

Hours(t) == (t \div 3600) % 24
Minutes(t) == (t \div 60) % 60
CurrentTime(t) == Pad2(Hours(t)) \o Pad2(Minutes(t))
CurrentDay(t) == (t \div 86400) % 7

\* a.time.localeCompare(b.time) < 0 on two "HH:MM" strings
RECURSIVE LexLess(_, _)
LexLess(s, t) ==
    IF s = <<>> \/ t = <<>> THEN s = <<>> /\ t # <<>>
    ELSE IF Head(s) # Head(t) THEN Head(s) < Head(t)
    ELSE LexLess(Tail(s), Tail(t))

\* Array.prototype.sort((a,b) => a.time.localeCompare(b.time)): a stable sort
RECURSIVE InsertByTime(_, _)
InsertByTime(s, a) ==
    IF s = <<>> THEN <<a>>
    ELSE IF LexLess(a.time, Head(s).time) THEN <<a>> \o s
    ELSE <<Head(s)>> \o InsertByTime(Tail(s), a)

RECURSIVE SortByTime(_)
SortByTime(s) ==
    IF s = <<>> THEN <<>>
    ELSE InsertByTime(SortByTime(SubSeq(s, 1, Len(s) - 1)), s[Len(s)])

----------------------------------------------------------------------------
(* services/db: the alarms object store *)

\* store.getAll(): the records in key order
RECURSIVE KeyOrder(_, _)
KeyOrder(store, ids) ==
    IF ids = {} THEN <<>>
    ELSE LET m == CHOOSE x \in ids : \A y \in ids : x <= y
         IN  <<store[m]>> \o KeyOrder(store, ids \ {m})

getAllAlarms(store) == SortByTime(KeyOrder(store, DOMAIN store))

\* store.put(alarm): add or update by key
StorePut(store, a) ==
    [x \in DOMAIN store \cup {a.id} |-> IF x = a.id THEN a ELSE store[x]]

\* store.delete(id)
StoreDelete(store, id) == [x \in DOMAIN store \ {id} |-> store[x]]

PutReq(a, cont) == [op |-> "put", alarm |-> <<a>>, id |-> a.id, cont |-> cont]
DeleteReq(id) == [op |-> "delete", alarm |-> <<>>, id |-> id, cont |-> "delete"]
GetAllReq == [op |-> "getAll", alarm |-> <<>>, id |-> 0, cont |-> "load"]

\* The effect of a request on the store when it succeeds
ApplyReq(store, r) ==
    IF r.op = "put" THEN StorePut(store, r.alarm[1])
    ELSE IF r.op = "delete" THEN StoreDelete(store, r.id)
    ELSE store

----------------------------------------------------------------------------
(* components/AlarmClock.tsx *)

\* Fires without the weekday test
FiresAnyDay(a, t, ignore) ==
    /\ a.isActive
    /\ a.time = CurrentTime(t)
    /\ \A k \in 1..Len(ignore) : ignore[k] # a.id

\* The condition of the if in checkAlarms' loop
Fires(a, t, ignore) ==
    /\ a.isActive
    /\ a.time = CurrentTime(t)
    /\ \A k \in 1..Len(ignore) : ignore[k] # a.id
    /\ (a.days = {} \/ CurrentDay(t) \in a.days)

\* A loop without the break: the last match is the one left ringing
LastMatch(list, t, ignore) ==
    IF \E i \in 1..Len(list) : Fires(list[i], t, ignore)
    THEN CHOOSE i \in 1..Len(list) :
            /\ Fires(list[i], t, ignore)
            /\ \A j \in (i + 1)..Len(list) : ~Fires(list[j], t, ignore)
    ELSE 0

\* The index at which the for loop breaks, 0 when it runs to the end
FirstMatch(list, t, ignore) ==
    IF \E i \in 1..Len(list) : Fires(list[i], t, ignore)
    THEN CHOOSE i \in 1..Len(list) :
            /\ Fires(list[i], t, ignore)
            /\ \A j \in 1..(i - 1) : ~Fires(list[j], t, ignore)
    ELSE 0

\* Deactivated writing the alarm back as it is
DeactivatedUnchanged(a) == a

\* { ...alarm, isActive: false }
Deactivated(a) == [a EXCEPT !.isActive = FALSE]

\* The .then() of a settled request, run on the mounted component
Continue(list, r, store) ==
    IF r.cont = "add" THEN SortByTime(Append(list, r.alarm[1]))
    ELSE IF r.cont = "deact"
        THEN [i \in 1..Len(list) |->
                 IF list[i].id = r.id THEN r.alarm[1] ELSE list[i]]
    ELSE IF r.cont = "delete" THEN SelectSeq(list, LAMBDA a : a.id # r.id)
    ELSE IF r.cont = "load" THEN getAllAlarms(store)
    ELSE list

\* The modal overlays (fixed inset-0 z-50) cover the cards and the navigation
UiFree == ringingAlarm = <<>>

\* The seconds in which the user touches the screen
UserActs == (now % 60) < UserSeconds \/ (now % 60) >= 60 - UserSeconds

\* an AlarmClock that App renders in every view
MountedInEveryView == activeView \in {"alarms", "dashboard", "sleep"}

Mounted == activeView = "alarms"

PendingAdds == Len(SelectSeq(pending, LAMBDA r : r.cont = "add"))

\* Stores left by earlier runs of the app: ids 1..n, every alarm active
SeedStores(max) ==
    UNION {
        { f \in [1..n -> [id : 1..n, time : AlarmTimes, isActive : {TRUE},
                          days : DayChoices]] : \A k \in 1..n : f[k].id = k }
        : n \in 0..max }

\* App starts on the alarms view: AlarmClock is mounted and loads the alarms
AlarmInit ==
    /\ now = StartClock
    /\ ticked = TRUE
    /\ stampFresh = TRUE
    /\ pending = <<GetAllReq>>
    /\ alarms = <<>>
    /\ ringingAlarm = <<>>
    /\ ignoreForThisMinute = <<>>
    /\ timers = {}
    /\ fired = {}
    /\ rejected = FALSE
    /\ navLeft = MaxNav
    /\ \/ /\ alarmStore \in SeedStores(EditSeed)
          /\ deadline = StartClock + EditElapsed
          /\ editsLeft = EditEdits
       \/ /\ alarmStore \in SeedStores(MinuteSeed)
          /\ deadline = StartClock + MinuteElapsed
          /\ editsLeft = MinuteEdits
    /\ lastStamp = Len(alarmStore)

\* checkAlarms without its first line: it scans while an alarm is ringing
checkAlarmsWhileRinging ==
    /\ Mounted
    /\ ~ticked
    /\ ticked' = TRUE
    /\ LET i == FirstMatch(alarms, now, ignoreForThisMinute) IN
       IF i = 0
       THEN UNCHANGED <<ringingAlarm, pending, fired>>
       ELSE /\ ringingAlarm' = <<alarms[i]>>
            /\ fired' = IF alarms[i].days = {}
                        THEN fired \cup {alarms[i].id} ELSE fired
            /\ pending' = IF alarms[i].days = {}
                          THEN Append(pending, PutReq(Deactivated(alarms[i]), "deact"))
                          ELSE pending
    /\ UNCHANGED <<trackerVars, gatewayVars, dashVars, rejected, now, lastStamp, stampFresh, alarmStore, alarms,
                   ignoreForThisMinute, timers, appVars, boundVars>>

\* setInterval(checkAlarms, 1000): the callback of the current second
checkAlarms ==
    /\ Mounted
    /\ ~ticked
    /\ ticked' = TRUE
    /\ LET i == FirstMatch(alarms, now, ignoreForThisMinute) IN
       IF ringingAlarm # <<>> \/ i = 0
       THEN UNCHANGED <<ringingAlarm, pending, fired>>
       ELSE /\ ringingAlarm' = <<alarms[i]>>
            /\ fired' = IF alarms[i].days = {}
                        THEN fired \cup {alarms[i].id} ELSE fired
            /\ pending' = IF alarms[i].days = {}
                          THEN Append(pending, PutReq(Deactivated(alarms[i]), "deact"))
                          ELSE pending
    /\ UNCHANGED <<trackerVars, gatewayVars, dashVars, rejected, now, lastStamp, stampFresh, alarmStore, alarms,
                   ignoreForThisMinute, timers, appVars, boundVars>>

stopRinging ==
    /\ Mounted /\ UserActs
    /\ ringingAlarm # <<>>
    /\ LET alarmId == ringingAlarm[1].id IN
        /\ ringingAlarm' = <<>>
        /\ ignoreForThisMinute' = Append(ignoreForThisMinute, alarmId)
        /\ timers' = timers \cup
              {[id |-> alarmId, due |-> now + SuppressSeconds, live |-> TRUE]}
    /\ UNCHANGED <<trackerVars, gatewayVars, dashVars, rejected, fired, now, ticked, lastStamp, stampFresh, alarmStore, pending,
                   alarms, appVars, boundVars>>

\* The setTimeout callback of stopRinging.  On a component that has been
\* unmounted since (live = FALSE) the state update has no effect.
SuppressionTimeout ==
    /\ \E t \in timers :
        /\ now >= t.due
        /\ ignoreForThisMinute' =
              IF t.live
              THEN SelectSeq(ignoreForThisMinute, LAMBDA x : x # t.id)
              ELSE ignoreForThisMinute
        /\ timers' = timers \ {t}
    /\ UNCHANGED <<trackerVars, gatewayVars, dashVars, rejected, fired, now, ticked, lastStamp, stampFresh, alarmStore, pending,
                   alarms, ringingAlarm, appVars, boundVars>>

addAlarm ==
    /\ Mounted /\ UiFree /\ UserActs
    /\ editsLeft > 0
    /\ Len(pending) < MaxPending
    /\ Cardinality(DOMAIN alarmStore) + PendingAdds < MaxAlarms
    /\ LET stamp == IF stampFresh THEN lastStamp + 1 ELSE lastStamp IN
        /\ stamp <= MaxStamp
        /\ stamp > 0
        /\ \E tm \in AlarmTimes, ds \in DayChoices :
            pending' = Append(pending,
                PutReq([id |-> stamp, time |-> tm, isActive |-> TRUE, days |-> ds],
                       "add"))
        /\ lastStamp' = stamp
        /\ stampFresh' = FALSE
    /\ editsLeft' = editsLeft - 1
    /\ UNCHANGED <<trackerVars, gatewayVars, dashVars, rejected, fired, now, ticked, alarmStore, alarms, ringingAlarm,
                   ignoreForThisMinute, timers, appVars, deadline, navLeft>>

toggleAlarm ==
    /\ Mounted /\ UiFree /\ UserActs
    /\ editsLeft > 0
    /\ Len(pending) < MaxPending
    /\ \E i \in 1..Len(alarms) :
        LET id == alarms[i].id
            updatedAlarms == [j \in 1..Len(alarms) |->
                IF alarms[j].id = id
                THEN [alarms[j] EXCEPT !.isActive = ~alarms[j].isActive]
                ELSE alarms[j]]
            k == CHOOSE j \in 1..Len(updatedAlarms) :
                    /\ updatedAlarms[j].id = id
                    /\ \A l \in 1..(j - 1) : updatedAlarms[l].id # id
        IN  /\ alarms' = updatedAlarms
            /\ fired' = IF updatedAlarms[k].isActive THEN fired \ {id} ELSE fired
            /\ pending' = Append(pending, PutReq(updatedAlarms[k], "toggle"))
    /\ editsLeft' = editsLeft - 1
    /\ UNCHANGED <<trackerVars, gatewayVars, dashVars, rejected, now, ticked, lastStamp, stampFresh, alarmStore, ringingAlarm,
                   ignoreForThisMinute, timers, appVars, deadline, navLeft>>

deleteAlarm ==
    /\ Mounted /\ UiFree /\ UserActs
    /\ editsLeft > 0
    /\ Len(pending) < MaxPending
    /\ \E i \in 1..Len(alarms) :
        pending' = Append(pending, DeleteReq(alarms[i].id))
    /\ editsLeft' = editsLeft - 1
    /\ UNCHANGED <<trackerVars, gatewayVars, dashVars, rejected, fired, now, ticked, lastStamp, stampFresh, alarmStore, alarms,
                   ringingAlarm, ignoreForThisMinute, timers, appVars, deadline,
                   navLeft>>

\* The oldest IndexedDB request settles: onsuccess (ok: the promise resolves
\* and its .then runs) or onerror (the promise rejects and the .catch logs)
Settles(ok) ==
    /\ pending # <<>>
    /\ LET r == Head(pending)
           store2 == IF ok THEN ApplyReq(alarmStore, r) ELSE alarmStore
       IN  /\ alarmStore' = store2
           /\ pending' = Tail(pending)
           /\ alarms' = IF ok THEN Continue(alarms, r, store2) ELSE alarms
           /\ rejected' = (rejected \/ ~ok)

\* An IndexedDB request settles
StoreSettle ==
    /\ \E ok \in BOOLEAN : Settles(ok)
    /\ UNCHANGED <<trackerVars, gatewayVars, dashVars, fired, now, ticked, lastStamp, stampFresh, ringingAlarm,
                   ignoreForThisMinute, timers, appVars, boundVars>>

\* One second passes.  Every request settles and the interval callback runs
\* within the second; a due timeout runs in the second it is due.
ClockAdvance ==
    /\ now < deadline
    /\ Mounted => ticked
    /\ pending = <<>>
    /\ \A t \in timers : t.due > now
    /\ now' = now + IntervalSeconds
    /\ ticked' = FALSE
    /\ stampFresh' = TRUE
    /\ UNCHANGED <<trackerVars, gatewayVars, dashVars, rejected, fired, lastStamp, alarmStore, pending, alarms, ringingAlarm,
                   ignoreForThisMinute, timers, appVars, boundVars>>

\* A millisecond passes between two Date.now() readings
MsPass ==
    /\ ~stampFresh
    /\ stampFresh' = TRUE
    /\ UNCHANGED <<trackerVars, gatewayVars, dashVars, rejected, fired, now, ticked, lastStamp, alarmStore, pending, alarms,
                   ringingAlarm, ignoreForThisMinute, timers, appVars, boundVars>>

\* a navigation under which the suppression set and its timeouts outlive the
\* component
NavigateAlarmKeepsSuppression ==
    /\ UiFree /\ UserActs
    /\ ~isTracking
    /\ navLeft > 0
    /\ navLeft' = navLeft - 1
    /\ \E v \in {"alarms", "dashboard", "sleep"} :
        /\ v # activeView
        /\ activeView' = v
        /\ IF activeView = "alarms"
           THEN /\ pending' = [k \in 1..Len(pending) |->
                                  [pending[k] EXCEPT !.cont = "none"]]
                /\ alarms' = <<>>
                /\ ringingAlarm' = <<>>
                /\ ticked' = TRUE
                /\ UNCHANGED <<ignoreForThisMinute, timers>>
           ELSE IF v = "alarms"
           THEN /\ pending' = Append(pending, GetAllReq)
                /\ ticked' = TRUE
                /\ UNCHANGED <<alarms, ringingAlarm, ignoreForThisMinute, timers>>
           ELSE UNCHANGED <<pending, alarms, ringingAlarm, ignoreForThisMinute,
                            timers, ticked>>
    /\ UNCHANGED <<trackerVars, gatewayVars, dashVars, rejected, fired, isTracking, now, lastStamp, stampFresh, alarmStore, deadline,
                   editsLeft>>

\* BottomNav: setActiveView(v).  {activeView === 'alarms' && <AlarmClock />}
\* unmounts the component (its state and interval are gone, the callbacks of
\* its requests and timeouts no longer have an effect) or mounts a new one
\* (which loads the alarms; its interval first runs a second later).
NavigateAlarm ==
    /\ UiFree /\ UserActs
    /\ ~isTracking
    /\ navLeft > 0
    /\ navLeft' = navLeft - 1
    /\ \E v \in {"alarms", "dashboard", "sleep"} :
        /\ v # activeView
        /\ activeView' = v
        /\ IF activeView = "alarms"
           THEN /\ pending' = [k \in 1..Len(pending) |->
                                  [pending[k] EXCEPT !.cont = "none"]]
                /\ alarms' = <<>>
                /\ ringingAlarm' = <<>>
                /\ ignoreForThisMinute' = <<>>
                /\ timers' = {[t EXCEPT !.live = FALSE] : t \in timers}
                /\ ticked' = TRUE
           ELSE IF v = "alarms"
           THEN /\ pending' = Append(pending, GetAllReq)
                /\ ticked' = TRUE
                /\ UNCHANGED <<alarms, ringingAlarm, ignoreForThisMinute, timers>>
           ELSE UNCHANGED <<pending, alarms, ringingAlarm, ignoreForThisMinute,
                            timers, ticked>>
    /\ UNCHANGED <<trackerVars, gatewayVars, dashVars, rejected, fired, isTracking, now, lastStamp, stampFresh, alarmStore, deadline,
                   editsLeft>>

AlarmNext ==
    \/ checkAlarms
    \/ stopRinging
    \/ SuppressionTimeout
    \/ addAlarm
    \/ toggleAlarm
    \/ deleteAlarm
    \/ StoreSettle
    \/ ClockAdvance
    \/ MsPass
    \/ NavigateAlarm

----------------------------------------------------------------------------
(* Remote analysis gateway (netlify function) and its client (services/api) *)
(*                                                                          *)
(* A JSON text is the value it denotes: an object is its set of keys, the   *)
(* string it carries (an HTML fragment or an error message) and the         *)
(* analysis it carries; JSON.stringify drops a key whose value is           *)
(* undefined; a plain-text body does not parse as JSON.                     *)

OpNames == {"analyzeSleepAudio", "getHealthSuggestions", "getWeeklyAnalysis",
            "getHistoricalAnalysis"}
AnalysisKeys == {"sleepScore", "summary", "events", "stages", "duration"}

\* what the remote model can answer to the audio-analysis prompt
Analyses == {[sleepScore |-> 80, duration |-> 1], [sleepScore |-> 70, duration |-> 2]}

\* what a body parsed from JSON can carry as payload
Payloads ==
    {[kind |-> "undefined", audioBase64 |-> "", durationIsNumber |-> FALSE],
     [kind |-> "audio", audioBase64 |-> "GkXfo", durationIsNumber |-> TRUE],
     [kind |-> "audio", audioBase64 |-> "", durationIsNumber |-> TRUE],
     [kind |-> "audio", audioBase64 |-> "GkXfo", durationIsNumber |-> FALSE],
     [kind |-> "analysis", audioBase64 |-> "", durationIsNumber |-> TRUE],
     [kind |-> "history", audioBase64 |-> "", durationIsNumber |-> FALSE]}

\* event.body: absent, not JSON, or JSON carrying a type and a payload
Bodies ==
    {[kind |-> "absent", type |-> "undefined", payload |-> p] :
        p \in {q \in Payloads : q.kind = "undefined"}}
    \cup {[kind |-> "garbage", type |-> "undefined", payload |-> p] :
        p \in {q \in Payloads : q.kind = "undefined"}}
    \cup {[kind |-> "json", type |-> t, payload |-> p] :
        t \in OpNames \cup {"undefined", "frobnicate"}, p \in Payloads}

Events == [httpMethod : {"POST", "GET"}, body : Bodies]

\* ai.models.generateContent: rejects with an error, or resolves with a
\* response whose text may be undefined; json is what JSON.parse makes of the
\* trimmed text (<<>>: the text is not JSON)
RemoteOutcomes ==
    {[rejects |-> FALSE, message |-> "", hasText |-> TRUE, text |-> "{...}",
      json |-> <<a>>] : a \in Analyses}
    \cup {[rejects |-> FALSE, message |-> "", hasText |-> TRUE,
           text |-> "<p>Keep it up</p>", json |-> <<>>],
          [rejects |-> FALSE, message |-> "", hasText |-> FALSE,
           text |-> "", json |-> <<>>],
          [rejects |-> TRUE, message |-> "quota exceeded", hasText |-> FALSE,
           text |-> "", json |-> <<>>],
          [rejects |-> TRUE, message |-> "", hasText |-> FALSE,
           text |-> "", json |-> <<>>]}

JsonBody(keys, str, analysis) ==
    [kind |-> "json", keys |-> keys, str |-> str, analysis |-> analysis]
TextBody(str) == [kind |-> "text", keys |-> {}, str |-> str, analysis |-> <<>>]

\* an async function resolves with an object or rejects with an Error
Returned(keys, str, analysis) ==
    [thrown |-> FALSE, message |-> "", keys |-> keys, str |-> str,
     analysis |-> analysis]
Thrown(message) ==
    [thrown |-> TRUE, message |-> message, keys |-> {}, str |-> "",
     analysis |-> <<>>]

handleAnalyzeSleepAudio(payload, remote) ==
    IF payload.kind = "undefined"
    THEN Thrown("Cannot destructure property 'audioBase64' of 'payload'")
    ELSE IF payload.audioBase64 = "" \/ ~payload.durationIsNumber
    THEN Thrown("Missing audio data or duration.")
    ELSE IF remote.rejects THEN Thrown(remote.message)
    ELSE IF ~remote.hasText
    THEN Thrown("Cannot read properties of undefined (reading 'trim')")
    ELSE IF remote.json = <<>> THEN Thrown("Unexpected token in JSON")
    ELSE Returned(AnalysisKeys, "", remote.json)

\* { suggestions: response.text }
handleGetHealthSuggestions(payload, remote) ==
    IF payload.kind = "undefined"
    THEN Thrown("Cannot read properties of undefined (reading 'summary')")
    ELSE IF remote.rejects THEN Thrown(remote.message)
    ELSE Returned(IF remote.hasText THEN {"suggestions"} ELSE {},
                  remote.text, <<>>)

\* { analysis: response.text } over history.map(..)
handleGetWeeklyAnalysis(payload, remote) ==
    IF payload.kind # "history" THEN Thrown("history.map is not a function")
    ELSE IF remote.rejects THEN Thrown(remote.message)
    ELSE Returned(IF remote.hasText THEN {"analysis"} ELSE {}, remote.text, <<>>)

handleGetHistoricalAnalysis(payload, remote) ==
    IF payload.kind # "history" THEN Thrown("history.map is not a function")
    ELSE IF remote.rejects THEN Thrown(remote.message)
    ELSE Returned(IF remote.hasText THEN {"analysis"} ELSE {}, remote.text, <<>>)

\* return { statusCode: 405, body: 'Method Not Allowed' }
MethodNotAllowed ==
    [statusCode |-> 405, body |-> TextBody("Method Not Allowed")]

\* JSON.stringify({ error: error.message || 'An internal server error occurred.' })
ErrorBody(message) ==
    JsonBody({"error"},
             IF message # "" THEN message
             ELSE "An internal server error occurred.", <<>>)

handler(event, remote) ==
    IF event.httpMethod # "POST" THEN MethodNotAllowed
    ELSE
        LET body == event.body
            result ==
                IF body.kind = "garbage" THEN Thrown("Unexpected token in JSON")
                ELSE IF body.type = "analyzeSleepAudio"
                THEN handleAnalyzeSleepAudio(body.payload, remote)
                ELSE IF body.type = "getHealthSuggestions"
                THEN handleGetHealthSuggestions(body.payload, remote)
                ELSE IF body.type = "getWeeklyAnalysis"
                THEN handleGetWeeklyAnalysis(body.payload, remote)
                ELSE IF body.type = "getHistoricalAnalysis"
                THEN handleGetHistoricalAnalysis(body.payload, remote)
                ELSE Thrown("Unknown API call type")
        IN  IF ~result.thrown
            THEN [statusCode |-> 200,
                  body |-> JsonBody(result.keys, result.str, result.analysis)]
            ELSE [statusCode |-> 500, body |-> ErrorBody(result.message)]

\* The function is invoked with an event; the remote model answers as it may
GatewayRequest ==
    /\ \E event \in Events, remote \in RemoteOutcomes :
        /\ gwEvent' = <<event>>
        /\ gwRemote' = <<remote>>
        /\ gwResponse' = <<handler(event, remote)>>
    /\ UNCHANGED <<appVars, alarmVars, boundVars, trackerVars, dashVars>>

GatewayAtRest == gwEvent = <<>> /\ gwRemote = <<>> /\ gwResponse = <<>>

\* how the network treats a request of the client
NetOutcomes == {"ok", "unreachable", "badGateway"}

\* services/api postToApi: the resolved JSON, or the Error thrown
postToApi(type, payload, net, remote) ==
    IF net = "unreachable" THEN Thrown("Failed to fetch")
    ELSE
        LET response ==
                IF net = "badGateway"
                THEN [statusCode |-> 502, body |-> TextBody("Bad Gateway")]
                ELSE handler([httpMethod |-> "POST",
                              body |-> [kind |-> "json", type |-> type,
                                        payload |-> payload]], remote)
            body == response.body
        IN  IF response.statusCode \notin 200..299
            THEN LET error == IF body.kind # "json"
                              THEN "An unknown API error occurred."
                              ELSE IF "error" \in body.keys THEN body.str ELSE ""
                 IN  Thrown(IF error # "" THEN error
                            ELSE "Failed to fetch data from API.")
            ELSE IF body.kind # "json" THEN Thrown("Unexpected token in JSON")
            ELSE Returned(body.keys, body.str, body.analysis)

AudioPayload == [kind |-> "audio", audioBase64 |-> "GkXfo", durationIsNumber |-> TRUE]
AnalysisPayload == [kind |-> "analysis", audioBase64 |-> "", durationIsNumber |-> TRUE]

analyzeSleepAudio(net, remote) ==
    postToApi("analyzeSleepAudio", AudioPayload, net, remote)

\* result.suggestions: undefined when the key is missing
getHealthSuggestions(net, remote) ==
    LET result == postToApi("getHealthSuggestions", AnalysisPayload, net, remote)
    IN  IF result.thrown THEN result
        ELSE Returned(result.keys \cap {"suggestions"},
                      IF "suggestions" \in result.keys THEN result.str ELSE "",
                      <<>>)

----------------------------------------------------------------------------
(* Recording session controller (SleepTracker) under the navigation shell   *)
(*                                                                          *)
(* tracker holds the state and refs of the mounted SleepTracker and the     *)
(* browser objects its callbacks reach: the recorder, stream and interval   *)
(* the refs point to, and those an earlier start of the same instance left  *)
(* behind when a later start overwrote the refs (orphans).  A handler runs  *)
(* to its next await in one step; the state updates it queues are applied   *)
(* together when it yields (statusUpdates keeps the setStatus calls of the  *)
(* last step, in order).                                                    *)

MaxStarts == 2        \* recording sessions started in a behaviour
MaxChunks == 2        \* chunks buffered in a session
MaxDuration == 2      \* seconds counted in a session
TrackerNav == 3       \* navigation actions in a behaviour of the tracker

\* debugLog of handleStartTracking, without the clock prefix of its last entry
StartingLog == <<"Starting...">>
RequestingLog == Append(StartingLog, "Requesting microphone permissions...")
AcquiredLog == Append(RequestingLog, "Permission granted & stream acquired.")
LiveLog == Append(AcquiredLog, "Track state: live")
EndedLog == Append(AcquiredLog, "Track state: ended")
CreatingLog == LiveLog \o <<"Attached stream to hidden audio element to keep it alive.",
                            "Creating MediaRecorder...">>
StartedLog == CreatingLog \o <<"MediaRecorder created successfully.",
                               "Recording started.">>

NoChunksMessage == "[Final Check] No audio chunks were recorded. The stream might have been silent or stopped unexpectedly."
AnalyzeFallback == "Failed to analyze sleep audio. Please try again."

\* useState/useRef initial values; nothing acquired
TrackerInit ==
    [status |-> "idle", statusUpdates |-> <<>>, analysisData |-> <<>>, healthSuggestions |-> <<"">>,
     error |-> <<>>, duration |-> 0, sessionStartTime |-> FALSE,
     audioURL |-> FALSE,
     mediaRecorderRef |-> "null",   \* or the state of the recorder it holds
     audioChunksRef |-> 0,          \* length of the chunk array
     audioStreamRef |-> "null",     \* or "live" / "ended": the stream it holds
     timerIntervalRef |-> FALSE,    \* holds a running interval
     orphanRecorders |-> 0,         \* recording, no ref holds them
     orphanStreams |-> 0,           \* live, no ref holds them
     orphanIntervals |-> 0,         \* running, no ref holds them
     lostRecorders |-> 0,           \* recorders of unmounted instances
     lostStreams |-> 0,             \* live streams of unmounted instances
     lostIntervals |-> 0,           \* running intervals of unmounted instances
     objectURLs |-> 0,              \* created and not revoked
     awaiting |-> 0,                \* getUserMedia calls in flight
     stopEvents |-> <<>>,           \* 'stop' events queued, with their onstop
     analysis |-> <<>>]             \* onstop continuations in flight

\* an effect that leaves 'requesting' out
isCurrentlyOnTrackingOrAnalyzing(status) == status \in {"tracking", "analyzing"}

\* status === 'tracking' || status === 'analyzing' || status === 'requesting'
isCurrentlyOn(status) == status \in {"tracking", "analyzing", "requesting"}

\* {!isTracking && <BottomNav .. />}
BottomNavOffered == ~isTracking

\* setStatus(s), queued behind the calls the handler has made
setStatus(t, s) == [t EXCEPT !.status = s, !.statusUpdates = Append(@, s)]

\* a cleanup that lets go of the refs and stops nothing
cleanupRefsOnly(t) ==
    [t EXCEPT !.timerIntervalRef = FALSE,
              !.audioStreamRef = "null",
              !.mediaRecorderRef = "null",
              !.orphanIntervals = IF t.timerIntervalRef THEN @ + 1 ELSE @,
              !.orphanStreams = IF t.audioStreamRef = "live" THEN @ + 1 ELSE @,
              !.orphanRecorders = IF t.mediaRecorderRef = "recording" THEN @ + 1 ELSE @]

\* a cleanup that stops the tracks and the recorder and leaves the interval
cleanupKeepsInterval(t) ==
    [t EXCEPT !.audioStreamRef = "null",
              !.mediaRecorderRef = "null",
              !.stopEvents = IF t.mediaRecorderRef = "recording"
                             THEN Append(@, [handler |-> FALSE, duration |-> 0])
                             ELSE @]

\* clearInterval, track.stop() on the held stream, recorder.stop() when it is
\* recording (its 'stop' event is queued with the onstop it has: none)
cleanup(t) ==
    [t EXCEPT !.timerIntervalRef = FALSE,
              !.audioStreamRef = "null",
              !.mediaRecorderRef = "null",
              !.stopEvents = IF t.mediaRecorderRef = "recording"
                             THEN Append(@, [handler |-> FALSE, duration |-> 0])
                             ELSE @]

\* an updateError that shows the error and stops nothing
updateErrorNoCleanup(t, debugLog, msg) ==
    setStatus([t EXCEPT !.error = Append(debugLog, msg)], "error")

\* an updateError that goes back to idle
updateErrorToIdle(t, debugLog, msg) ==
    cleanup(setStatus([t EXCEPT !.error = Append(debugLog, msg)], "idle"))

\* updateError: push the message, show the log, error, cleanup
updateError(t, debugLog, msg) ==
    cleanup(setStatus([t EXCEPT !.error = Append(debugLog, msg)], "error"))

\* resetState as a function of the component
resetOf(t) ==
    [setStatus(cleanup(t), "idle") EXCEPT
        !.analysisData = <<>>, !.healthSuggestions = <<"">>, !.error = <<>>,
        !.duration = 0, !.audioURL = FALSE, !.sessionStartTime = FALSE,
        !.objectURLs = IF t.audioURL THEN @ - 1 ELSE @]

TrackerMounted == activeView = "sleep"

\* the component as a handler finds it: no state update queued
Rendered == [tracker EXCEPT !.statusUpdates = <<>>]

\* the state updates are applied and the effect reports to App
Commit(t) ==
    /\ tracker' = t
    /\ isTracking' = isCurrentlyOn(t.status)

RemoveAt(s, i) == [k \in 1..(Len(s) - 1) |-> IF k < i THEN s[k] ELSE s[k + 1]]

\* the variables no step of the tracker changes
trackerFrame == <<fired, rejected, now, ticked, stampFresh, alarmStore, pending, alarms,
                  ringingAlarm, ignoreForThisMinute, timers, deadline,
                  editsLeft, mediaDevices, gatewayVars, dashVars>>

\* IdleView onStart, rendered while status === 'idle'
handleStartTracking ==
    /\ TrackerMounted
    /\ tracker.status = "idle"
    /\ starts < MaxStarts
    /\ starts' = starts + 1
    /\ LET t == setStatus(Rendered, "requesting")
       IN  IF ~mediaDevices
           THEN Commit(updateError(t, StartingLog,
                    "Error: Media Devices API (getUserMedia) not supported on this browser."))
           ELSE Commit([t EXCEPT !.awaiting = @ + 1])
    /\ UNCHANGED <<activeView, navLeft, lastStamp, sessionStore, trackerFrame>>

\* audioStreamRef.current = stream
holdStream(t, s) ==
    [t EXCEPT !.audioStreamRef = s,
              !.orphanStreams = IF t.audioStreamRef = "live" THEN @ + 1 ELSE @]

\* a start that does not note when the session began
startRecordingUntimed(t) ==
    setStatus(
    [t EXCEPT !.mediaRecorderRef = "recording",
              !.orphanRecorders = IF t.mediaRecorderRef = "recording" THEN @ + 1 ELSE @,
              !.audioChunksRef = 0,
              !.duration = 0,
              !.timerIntervalRef = TRUE,
              !.orphanIntervals = IF t.timerIntervalRef THEN @ + 1 ELSE @],
    "tracking")

\* new MediaRecorder .. setStatus('tracking')
startRecording(t) ==
    setStatus(
    [t EXCEPT !.mediaRecorderRef = "recording",
              !.orphanRecorders = IF t.mediaRecorderRef = "recording" THEN @ + 1 ELSE @,
              !.audioChunksRef = 0,
              !.duration = 0,
              !.sessionStartTime = TRUE,
              !.timerIntervalRef = TRUE,
              !.orphanIntervals = IF t.timerIntervalRef THEN @ + 1 ELSE @],
    "tracking")

GetUserMediaOutcomes == {"NotAllowedError", "NotReadableError", "inactive",
                         "notLive", "noRecorder", "recording"}

\* handleStartTracking after await getUserMedia
afterGetUserMedia(t, outcome) ==
    IF outcome = "NotAllowedError"
    THEN updateError(t, RequestingLog,
            "Microphone access was denied. Please enable it in your browser settings.")
    ELSE IF outcome = "NotReadableError"
    THEN updateError(t, RequestingLog,
            "An unknown error occurred while accessing the microphone: Could not start audio source")
    ELSE IF outcome = "inactive"
    THEN updateError(holdStream(t, "ended"), AcquiredLog,
            "Error: The acquired audio stream is not active or has no tracks.")
    ELSE IF outcome = "notLive"
    THEN updateError(holdStream(t, "live"), EndedLog,
            "Error: Audio track is not live. Current state: ended")
    ELSE IF outcome = "noRecorder"
    THEN updateError(holdStream(t, "live"), CreatingLog,
            "Failed to create MediaRecorder: mimeType is not supported")
    ELSE startRecording(holdStream(t, "live"))

GetUserMediaSettles ==
    /\ tracker.awaiting > 0
    /\ \E outcome \in GetUserMediaOutcomes :
        Commit(afterGetUserMedia([Rendered EXCEPT !.awaiting = @ - 1], outcome))
    /\ UNCHANGED <<activeView, navLeft, lastStamp, sessionStore, starts,
                   trackerFrame>>

\* ondataavailable with event.data.size > 0, of any recorder of the instance
ondataavailable ==
    /\ tracker.mediaRecorderRef = "recording" \/ tracker.orphanRecorders > 0
    /\ tracker.audioChunksRef < MaxChunks
    /\ Commit([Rendered EXCEPT !.audioChunksRef = @ + 1])
    /\ UNCHANGED <<activeView, navLeft, lastStamp, sessionStore, starts,
                   trackerFrame>>

\* setInterval(() => setDuration(d => d + 1), 1000), of any running interval
DurationTick ==
    /\ tracker.timerIntervalRef \/ tracker.orphanIntervals > 0
    /\ tracker.duration < MaxDuration
    /\ Commit([Rendered EXCEPT !.duration = @ + 1])
    /\ UNCHANGED <<activeView, navLeft, lastStamp, sessionStore, starts,
                   trackerFrame>>

RecorderErrorMessage == "A recording error occurred: UnknownError"

\* onerror of a recorder: the browser has stopped it and queued its 'stop'
onerror ==
    /\ \/ /\ tracker.mediaRecorderRef = "recording"
          /\ Commit(updateError(
                [Rendered EXCEPT !.mediaRecorderRef = "inactive",
                    !.stopEvents = Append(@, [handler |-> FALSE, duration |-> 0])],
                StartedLog, RecorderErrorMessage))
       \/ /\ tracker.orphanRecorders > 0
          /\ Commit(updateError(
                [Rendered EXCEPT !.orphanRecorders = @ - 1,
                    !.stopEvents = Append(@, [handler |-> FALSE, duration |-> 0])],
                StartedLog, RecorderErrorMessage))
    /\ UNCHANGED <<activeView, navLeft, lastStamp, sessionStore, starts,
                   trackerFrame>>

\* every track of the held stream ends (the microphone is unplugged): the
\* browser stops the recorder and queues its 'stop'; no handler of the
\* component runs
StreamEnded ==
    /\ tracker.audioStreamRef = "live"
    /\ Commit([Rendered EXCEPT
            !.audioStreamRef = "ended",
            !.mediaRecorderRef = IF @ = "recording" THEN "inactive" ELSE @,
            !.stopEvents = IF tracker.mediaRecorderRef = "recording"
                           THEN Append(@, [handler |-> FALSE, duration |-> 0])
                           ELSE @])
    /\ UNCHANGED <<activeView, navLeft, lastStamp, sessionStore, starts,
                   trackerFrame>>

\* TrackingView onStop
handleStopAndAnalyze ==
    /\ TrackerMounted
    /\ tracker.status = "tracking"
    /\ IF tracker.mediaRecorderRef = "recording"
       THEN Commit([Rendered EXCEPT
                !.mediaRecorderRef = "inactive",
                !.stopEvents = Append(@, [handler |-> TRUE,
                                          duration |-> tracker.duration])])
       ELSE Commit(Rendered)
    /\ UNCHANGED <<activeView, navLeft, lastStamp, sessionStore, starts,
                   trackerFrame>>

\* an onstop that goes on to the analysis whatever was recorded
onstopUnchecked(t, duration) ==
    [setStatus(t, "analyzing") EXCEPT
              !.audioURL = TRUE,
              !.objectURLs = @ + 1,
              !.analysis = Append(@, [step |-> "reading", duration |-> duration,
                                      reply |-> <<>>, data |-> <<>>])]

\* an onstop that reads the counter when the 'stop' event arrives
onstopLateDuration(t, duration) ==
    IF t.audioChunksRef = 0
    THEN cleanup(setStatus([setStatus(t, "analyzing") EXCEPT
                                !.error = <<NoChunksMessage>>], "error"))
    ELSE [setStatus(t, "analyzing") EXCEPT
                   !.audioURL = TRUE,
                   !.objectURLs = @ + 1,
                   !.analysis = Append(@, [step |-> "reading", duration |-> t.duration,
                                           reply |-> <<>>, data |-> <<>>])]

\* mediaRecorderRef.current.onstop, up to reader.readAsDataURL(audioBlob)
onstop(t, duration) ==
    IF t.audioChunksRef = 0
    THEN cleanup(setStatus([setStatus(t, "analyzing") EXCEPT
                                !.error = <<NoChunksMessage>>], "error"))
    ELSE [setStatus(t, "analyzing") EXCEPT
                   !.audioURL = TRUE,
                   !.objectURLs = @ + 1,
                   !.analysis = Append(@, [step |-> "reading", duration |-> duration,
                                           reply |-> <<>>, data |-> <<>>])]

\* A stopped recorder delivers what it still holds (a last dataavailable, with
\* data or without) and then its 'stop' event
StopEvent ==
    /\ \E i \in 1..Len(tracker.stopEvents), flush \in BOOLEAN :
        LET e == tracker.stopEvents[i]
            t == [Rendered EXCEPT
                    !.stopEvents = RemoveAt(@, i),
                    !.audioChunksRef =
                        IF flush /\ @ < MaxChunks THEN @ + 1 ELSE @]
        IN  IF e.handler THEN Commit(onstop(t, e.duration)) ELSE Commit(t)
    /\ UNCHANGED <<activeView, navLeft, lastStamp, sessionStore, starts,
                   trackerFrame>>

\* reader.onloadend: reader.result is the data URL, or null when the read
\* failed (the split then throws outside the try: nothing else runs); with
\* the result, analyzeSleepAudio(base64Audio, duration) is sent
onloadend ==
    /\ \E i \in 1..Len(tracker.analysis), ok \in BOOLEAN :
        /\ tracker.analysis[i].step = "reading"
        /\ Commit([Rendered EXCEPT !.analysis =
                IF ok THEN [@ EXCEPT ![i].step = "analyze"] ELSE RemoveAt(@, i)])
    /\ UNCHANGED <<activeView, navLeft, lastStamp, sessionStore, starts,
                   trackerFrame>>

\* The gateway call of a continuation settles
GatewayReply ==
    /\ \E i \in 1..Len(tracker.analysis), net \in NetOutcomes,
          remote \in RemoteOutcomes :
        LET f == tracker.analysis[i] IN
        /\ f.step \in {"analyze", "suggest"}
        /\ f.reply = <<>>
        /\ Commit([Rendered EXCEPT !.analysis[i].reply =
                <<IF f.step = "analyze" THEN analyzeSleepAudio(net, remote)
                  ELSE getHealthSuggestions(net, remote)>>])
    /\ UNCHANGED <<activeView, navLeft, lastStamp, sessionStore, starts,
                   trackerFrame>>

\* services/db addSleepSession: store.add(session); a duplicate date or any
\* other store error rejects with the string 'Error adding sleep session'
\* (a string has no message)
addSleepSession(store, session, fails) ==
    IF fails \/ session.date \in DOMAIN store
    THEN [store |-> store, reply |-> Thrown("")]
    ELSE [store |-> [d \in DOMAIN store \cup {session.date} |->
                        IF d = session.date THEN session ELSE store[d]],
          reply |-> Returned({}, "", <<>>)]

\* The store request of a continuation settles
StoreReply ==
    /\ \E i \in 1..Len(tracker.analysis), fails \in BOOLEAN :
        LET f == tracker.analysis[i]
            r == addSleepSession(sessionStore, f.data[1], fails)
        IN  /\ f.step = "save"
            /\ f.reply = <<>>
            /\ sessionStore' = r.store
            /\ Commit([Rendered EXCEPT !.analysis[i].reply = <<r.reply>>])
    /\ UNCHANGED <<activeView, navLeft, lastStamp, starts, trackerFrame>>

\* a catch clause that records the message and leaves the status
catchWithoutStatus(t, err) ==
    cleanup([t EXCEPT
        !.error = <<IF err.message # "" THEN err.message ELSE AnalyzeFallback>>])

\* catch (err) { setError([err.message || '...']); setStatus('error') }
\* finally { cleanup() }
catch(t, err) ==
    cleanup(setStatus([t EXCEPT
        !.error = <<IF err.message # "" THEN err.message ELSE AnalyzeFallback>>],
        "error"))

\* { ...analysisResult, date: new Date().toISOString() }
dataToSave(analysisResult, date) ==
    [date |-> date, sleepScore |-> analysisResult.sleepScore,
     duration |-> analysisResult.duration]

\* a try block that asks for the suggestions before it saves the record
resumeSuggestFirst(t, i, date) ==
    LET f == t.analysis[i]
        r == f.reply[1]
        rest == [t EXCEPT !.analysis = RemoveAt(@, i)]
    IN  IF r.thrown THEN catch(rest, r)
        ELSE IF f.step = "analyze"
        THEN [t EXCEPT !.analysisData = <<dataToSave(r.analysis[1], date)>>,
                       !.analysis[i] = [step |-> "suggest", duration |-> f.duration,
                                        reply |-> <<>>,
                                        data |-> <<dataToSave(r.analysis[1], date)>>]]
        ELSE IF f.step = "suggest"
        THEN [t EXCEPT !.healthSuggestions =
                            IF "suggestions" \in r.keys THEN <<r.str>> ELSE <<>>,
                       !.analysis[i] = [f EXCEPT !.step = "save", !.reply = <<>>]]
        ELSE cleanup(setStatus(rest, "results"))

\* the try block of onloadend, from the await that has settled to the next
resume(t, i, date) ==
    LET f == t.analysis[i]
        r == f.reply[1]
        rest == [t EXCEPT !.analysis = RemoveAt(@, i)]
    IN  IF r.thrown THEN catch(rest, r)
        ELSE IF f.step = "analyze"
        THEN [t EXCEPT !.analysisData = <<dataToSave(r.analysis[1], date)>>,
                       !.analysis[i] = [step |-> "save", duration |-> f.duration,
                                        reply |-> <<>>,
                                        data |-> <<dataToSave(r.analysis[1], date)>>]]
        ELSE IF f.step = "save"
        THEN [t EXCEPT !.analysis[i] = [f EXCEPT !.step = "suggest", !.reply = <<>>]]
        ELSE cleanup(setStatus([rest EXCEPT
                !.healthSuggestions =
                    IF "suggestions" \in r.keys THEN <<r.str>> ELSE <<>>],
                "results"))

\* The continuation of onloadend runs on the settled await.  The clock has
\* moved on since its last reading.
Resume ==
    /\ \E i \in 1..Len(tracker.analysis) :
        LET f == tracker.analysis[i] IN
        /\ f.reply # <<>>
        /\ Commit(resume(Rendered, i, lastStamp + 1))
        /\ lastStamp' = IF f.step = "analyze" /\ ~f.reply[1].thrown
                        THEN lastStamp + 1 ELSE lastStamp
    /\ UNCHANGED <<activeView, navLeft, sessionStore, starts, trackerFrame>>

\* ResultsView onDone / ErrorView onRetry
resetState ==
    /\ TrackerMounted
    /\ \/ tracker.status = "error"
       \/ /\ tracker.status = "results"
          /\ tracker.analysisData # <<>>
          /\ tracker.sessionStartTime
          /\ tracker.audioURL
    /\ Commit(resetOf(Rendered))
    /\ UNCHANGED <<activeView, navLeft, lastStamp, sessionStore, starts,
                   trackerFrame>>

\* The effect cleanup of an unmounting SleepTracker calls cleanup(); what its
\* refs did not hold stays as it is, out of reach of the next instance
unmounted(t) ==
    [TrackerInit EXCEPT
        !.lostRecorders = t.lostRecorders + t.orphanRecorders,
        !.lostStreams = t.lostStreams + t.orphanStreams,
        !.lostIntervals = t.lostIntervals + t.orphanIntervals,
        !.objectURLs = t.objectURLs]

\* BottomNav setActiveView(v), offered while !isTracking
NavigateTracker ==
    /\ BottomNavOffered
    /\ navLeft > 0
    /\ navLeft' = navLeft - 1
    /\ \E v \in {"alarms", "dashboard", "sleep"} :
        /\ v # activeView
        /\ activeView' = v
    /\ tracker' = IF activeView = "sleep" THEN unmounted(tracker) ELSE tracker
    /\ UNCHANGED <<isTracking, lastStamp, sessionStore, starts, trackerFrame>>

TrackerNext ==
    \/ handleStartTracking
    \/ GetUserMediaSettles
    \/ ondataavailable
    \/ DurationTick
    \/ onerror
    \/ StreamEnded
    \/ handleStopAndAnalyze
    \/ StopEvent
    \/ onloadend
    \/ GatewayReply
    \/ StoreReply
    \/ Resume
    \/ resetState
    \/ NavigateTracker

TrackerAtRest == tracker = TrackerInit /\ mediaDevices = TRUE /\ starts = 0

\* AlarmClock as the tracker sees it: nothing of it is followed
AlarmAtRest ==
    /\ now = StartClock
    /\ ticked = TRUE
    /\ lastStamp = 0
    /\ stampFresh = TRUE
    /\ alarmStore = <<>>
    /\ pending = <<>>
    /\ alarms = <<>>
    /\ ringingAlarm = <<>>
    /\ ignoreForThisMinute = <<>>
    /\ timers = {}
    /\ fired = {}
    /\ rejected = FALSE
    /\ deadline = StartClock
    /\ editsLeft = 0

----------------------------------------------------------------------------
(* Dashboard: the loaded history, the selected window and the aggregates.   *)
(* A date is the day it falls on, counted from an epoch.                    *)

MaxHistory == 3       \* sessions stored when the dashboard opens

\* new Date() when the dashboard filters
Today == 400
DashDates == {Today - 40, Today - 8, Today - 7, Today - 1, Today}
DashScores == {70, 80, 81, 90}
DashDurations == {21600, 25200, 28800}

\* the stores the dashboard can find: at most MaxHistory sessions, keyed by date
SessionStores ==
    UNION { { f \in [D -> [date : D, sleepScore : DashScores,
                           duration : DashDurations]] :
                \A d \in D : f[d].date = d }
            : D \in {E \in SUBSET DashDates : Cardinality(E) <= MaxHistory} }

RECURSIVE ByDateDescending(_, _)
\* sort((a, b) => new Date(b.date).getTime() - new Date(a.date).getTime())
ByDateDescending(store, dates) ==
    IF dates = {} THEN <<>>
    ELSE LET latest == CHOOSE d \in dates : \A e \in dates : e <= d
         IN  <<store[latest]>> \o ByDateDescending(store, dates \ {latest})

\* services/db getSleepHistory
getSleepHistory(store) == ByDateDescending(store, DOMAIN store)

\* timeRange === 'week' ? 7 : timeRange === 'month' ? 30 : 365
Days(range) == IF range = "week" THEN 7 ELSE IF range = "month" THEN 30 ELSE 365

\* a filter that leaves out the session dated exactly at the cutoff
filteredDataAfter(list, range) ==
    SelectSeq(list, LAMBDA item : item.date > Today - Days(range))

\* history.filter(item => new Date(item.date) >= cutoffDate)
filteredData(list, range) ==
    SelectSeq(list, LAMBDA item : item.date >= Today - Days(range))

RECURSIVE SumOf(_, _)
\* data.reduce((acc, item) => acc + item[field], 0)
SumOf(data, field) ==
    IF data = <<>> THEN 0 ELSE Head(data)[field] + SumOf(Tail(data), field)

\* an average score cut off at the integer below
avgScoreFloor(data) == SumOf(data, "sleepScore") \div Len(data)

\* Math.round(sum / data.length): the nearest integer, a half going up
avgScore(data) == (2 * SumOf(data, "sleepScore") + Len(data)) \div (2 * Len(data))

\* sum / data.length, as the whole seconds and the remaining fraction rest/over
avgDuration(data) ==
    [whole |-> SumOf(data, "duration") \div Len(data),
     rest |-> SumOf(data, "duration") % Len(data),
     over |-> Len(data)]

\* a Dashboard that hands every non-empty history's window to the content
DashboardViewUnguarded ==
    IF history = <<>> THEN "EmptyState" ELSE "DashboardContent"

\* what Dashboard renders
DashboardView ==
    IF history = <<>> THEN "EmptyState"
    ELSE IF filteredData(history, timeRange) = <<>> THEN "NoDataForRange"
    ELSE "DashboardContent"

dashFrame == <<isTracking, alarmVars, deadline, editsLeft, trackerVars, gatewayVars>>

\* loadHistory settles: setHistory(storedHistory), or the failure is logged
LoadHistorySettles ==
    /\ historyLoad
    /\ historyLoad' = FALSE
    /\ \E ok \in BOOLEAN :
        history' = IF ok THEN getSleepHistory(sessionStore) ELSE history
    /\ UNCHANGED <<activeView, navLeft, timeRange, dashFrame>>

\* TimeRangeSelector onClick, rendered once the history is not empty
setTimeRange ==
    /\ activeView = "dashboard"
    /\ history # <<>>
    /\ \E range \in {"week", "month", "year"} : timeRange' = range
    /\ UNCHANGED <<activeView, navLeft, history, historyLoad, dashFrame>>

\* BottomNav setActiveView(v): Dashboard mounts with its initial state and
\* loads the history, or unmounts (a load still in flight sets nothing)
NavigateDashboard ==
    /\ ~isTracking
    /\ navLeft > 0
    /\ navLeft' = navLeft - 1
    /\ \E v \in {"alarms", "dashboard", "sleep"} :
        /\ v # activeView
        /\ activeView' = v
        /\ historyLoad' = (v = "dashboard")
    /\ history' = <<>>
    /\ timeRange' = "week"
    /\ UNCHANGED dashFrame

DashNext ==
    \/ LoadHistorySettles
    \/ setTimeRange
    \/ NavigateDashboard

DashAtRest == history = <<>> /\ timeRange = "week" /\ historyLoad = FALSE

----------------------------------------------------------------------------
(* The specifications *)

AlarmAppInit ==
    /\ activeView = "alarms"
    /\ isTracking = FALSE
    /\ AlarmInit
    /\ TrackerAtRest
    /\ sessionStore = <<>>
    /\ GatewayAtRest
    /\ DashAtRest

SpecAlarm == AlarmAppInit /\ [][AlarmNext]_vars

\* App starts on the alarms view; the browser has getUserMedia or has not
TrackerAppInit ==
    /\ activeView = "alarms"
    /\ isTracking = FALSE
    /\ tracker = TrackerInit
    /\ mediaDevices \in BOOLEAN
    /\ starts = 0
    /\ sessionStore = <<>>
    /\ navLeft = TrackerNav
    /\ AlarmAtRest
    /\ GatewayAtRest
    /\ DashAtRest

SpecTracker == TrackerAppInit /\ [][TrackerNext]_vars

GatewayNext == GatewayRequest

GatewayInit ==
    /\ activeView = "alarms"
    /\ isTracking = FALSE
    /\ navLeft = 0
    /\ AlarmAtRest
    /\ TrackerAtRest
    /\ sessionStore = <<>>
    /\ GatewayAtRest
    /\ DashAtRest

SpecGateway == GatewayInit /\ [][GatewayNext]_vars

\* App starts on the alarms view, over the sessions stored so far
DashAppInit ==
    /\ activeView = "alarms"
    /\ isTracking = FALSE
    /\ navLeft = MaxNav
    /\ AlarmAtRest
    /\ TrackerAtRest
    /\ sessionStore \in SessionStores
    /\ GatewayAtRest
    /\ DashAtRest

SpecDashboard == DashAppInit /\ [][DashNext]_vars

----------------------------------------------------------------------------
(* Alarm evaluation loop: properties *)

Suppressed(id) == \E k \in 1..Len(ignoreForThisMinute) : ignoreForThisMinute[k] = id

\* The tick turns the ringing alarm into a
MakesRinging(a) == ringingAlarm # <<a>> /\ ringingAlarm' = <<a>>

\* active, minute-exact time match, weekday in the day-set, not suppressed
RepeatingDue(a) ==
    /\ a.isActive
    /\ a.time = CurrentTime(now)
    /\ CurrentDay(now) \in a.days
    /\ ~Suppressed(a.id)

\* the same for any alarm, a one-shot alarm matching on every weekday
AnyDue(a) ==
    /\ a.isActive
    /\ a.time = CurrentTime(now)
    /\ (a.days = {} \/ CurrentDay(now) \in a.days)
    /\ ~Suppressed(a.id)

\* C1 as stated: on every tick, an alarm with a non-empty day-set becomes the
\* ringing alarm if and only if it is active, its time equals the current
\* HH:MM, the current weekday is in its day-set and it is not suppressed.
C1_FiresIffDue ==
    [][checkAlarms =>
        \A i \in 1..Len(alarms) :
            alarms[i].days # {} =>
                (MakesRinging(alarms[i]) <=> RepeatingDue(alarms[i]))]_vars

\* The place of an alarm in the list: its first occurrence
FirstIndex(a) == CHOOSE i \in 1..Len(alarms) :
                    alarms[i] = a /\ \A j \in 1..(i - 1) : alarms[j] # a

\* C1 amended: on every tick, an alarm with a non-empty day-set becomes the
\* ringing alarm if and only if nothing is ringing when the tick starts, the
\* alarm is active, its time equals the current HH:MM, the current weekday is
\* in its day-set, it is not suppressed, and no alarm before it in list order
\* (one-shot or repeating) satisfies the firing condition.
C1_FirstDueFires ==
    [][checkAlarms =>
        \A i \in 1..Len(alarms) :
            alarms[i].days # {} =>
                (MakesRinging(alarms[i]) <=>
                    /\ ringingAlarm = <<>>
                    /\ RepeatingDue(alarms[i])
                    /\ \A j \in 1..(FirstIndex(alarms[i]) - 1) :
                          ~AnyDue(alarms[j]))]_vars

\* A repeating alarm rings after a tick while another alarm of the list is due
C1_Witness ==
    /\ Mounted /\ ticked
    /\ ringingAlarm # <<>>
    /\ ringingAlarm[1].days # {}
    /\ \E i \in 1..Len(alarms) :
          /\ alarms[i] = ringingAlarm[1]
          /\ \E j \in (i + 1)..Len(alarms) :
                alarms[j].days # {} /\ RepeatingDue(alarms[j])

PutInFlight(id) ==
    \E k \in 1..Len(pending) : pending[k].op = "put" /\ pending[k].id = id

C3_NoRefireWithin60 ==
    [][(ringingAlarm = <<>> /\ ringingAlarm' # <<>>) =>
        \A t \in timers :
            t.id = ringingAlarm'[1].id => now - (t.due - SuppressSeconds) >= 60]_vars

----------------------------------------------------------------------------
(* Recording session controller: properties *)

\* C4: when the 'stop' event of a user stop is handled and zero chunks are
\* buffered (the last dataavailable included), the status becomes error with
\* the no-chunks message; it does not become analyzing or results and no
\* analysis of that session is started.
C4_NoChunksIsError ==
    [][\A i \in 1..Len(tracker.stopEvents) :
        ( /\ tracker.stopEvents[i].handler
          /\ tracker'.stopEvents = RemoveAt(tracker.stopEvents, i)
          /\ tracker'.audioChunksRef = 0 )
        => /\ tracker'.status = "error"
           /\ tracker'.error = <<NoChunksMessage>>
           /\ tracker'.analysis = tracker.analysis]_vars

\* A session stopped with nothing recorded has ended in error
C4_Witness ==
    /\ tracker.status = "error"
    /\ tracker.error = <<NoChunksMessage>>
    /\ tracker.audioChunksRef = 0
    /\ tracker.sessionStartTime

\* the step is a reset of the mounted controller
IsReset ==
    /\ activeView = "sleep" /\ activeView' = "sleep"
    /\ tracker.status \in {"error", "results"}
    /\ tracker'.status = "idle"

\* idle, no stream with a live track, no interval running, no recorder
Released(t) ==
    /\ t.status = "idle"
    /\ t.audioStreamRef = "null" /\ t.orphanStreams = 0 /\ t.lostStreams = 0
    /\ ~t.timerIntervalRef /\ t.orphanIntervals = 0 /\ t.lostIntervals = 0
    /\ t.mediaRecorderRef = "null" /\ t.orphanRecorders = 0
         /\ t.lostRecorders = 0

\* C5: from every state the controller reaches, a reset leaves status idle, no
\* microphone stream held (every acquired track stopped), no duration timer
\* running and no recorder attached, and a reset after it changes nothing;
\* the Done and Try Again buttons do exactly this reset.
C5_ResetReleasesAll ==
    /\ [](LET once == resetOf(Rendered)
          IN  /\ Released(once)
              /\ resetOf([once EXCEPT !.statusUpdates = <<>>]) = once)
    /\ [][IsReset => tracker' = resetOf(Rendered)]_vars

\* A session was recorded and the controller has been reset
C5_Witness ==
    /\ activeView = "sleep"
    /\ starts > 0
    /\ tracker.statusUpdates = <<"idle">>
    /\ Released(tracker)

\* C6: when the continuation of a session resumes on a failed audio-analysis
\* call, a failed store request or a failed suggestions call, the status
\* becomes error with a non-empty list of non-empty messages, and the
\* continuation is over: nothing of it is left to reach results.
C6_FailureIsError ==
    [][\A i \in 1..Len(tracker.analysis) :
        ( /\ tracker.analysis[i].step \in {"analyze", "save", "suggest"}
          /\ tracker.analysis[i].reply # <<>>
          /\ tracker.analysis[i].reply[1].thrown
          /\ tracker'.analysis = RemoveAt(tracker.analysis, i) )
        => /\ tracker'.status = "error"
           /\ tracker'.error # <<>>
           /\ \A k \in 1..Len(tracker'.error) : tracker'.error[k] # ""]_vars

\* The analysis succeeded, the store rejected the record: error, with the
\* fallback message
C6_Witness ==
    /\ tracker.status = "error"
    /\ tracker.error = <<AnalyzeFallback>>
    /\ tracker.analysisData # <<>>
    /\ tracker.analysis = <<>>

StatusEdges ==
    {<<"idle", "requesting">>, <<"requesting", "tracking">>,
     <<"requesting", "error">>, <<"tracking", "analyzing">>,
     <<"tracking", "error">>, <<"analyzing", "results">>,
     <<"analyzing", "error">>}

\* C7: the setStatus calls of every step of a mounted controller move the
\* status along the listed edges only, or to idle in a reset; there is no
\* edge out of error or results, so from these the status changes only by a
\* reset.
C7_OnlyListedTransitions ==
    [][(activeView = "sleep" /\ activeView' = "sleep") =>
        LET path == <<tracker.status>> \o tracker'.statusUpdates IN
        /\ tracker'.status = path[Len(path)]
        /\ \A k \in 1..(Len(path) - 1) :
              path[k + 1] # path[k] =>
                 \/ <<path[k], path[k + 1]>> \in StatusEdges
                 \/ path[k + 1] = "idle" /\ tracker' = resetOf(Rendered)]_vars

\* A session has gone all the way to results
C7_Witness ==
    /\ activeView = "sleep"
    /\ tracker.status = "results"
    /\ tracker.statusUpdates = <<"results">>

----------------------------------------------------------------------------
(* Gateway: properties *)

\* the keys of the result of an operation
ResultKeys(type) ==
    IF type = "analyzeSleepAudio" THEN AnalysisKeys
    ELSE IF type = "getHealthSuggestions" THEN {"suggestions"}
    ELSE {"analysis"}

\* C9 as stated: every request is answered with 200 and the whole result of
\* the operation named, or with another status and a JSON object
\* { error: string }.
C9_ResultOrJsonError ==
    gwResponse # <<>> =>
        LET event == gwEvent[1]
            response == gwResponse[1]
        IN  \/ /\ response.statusCode = 200
               /\ event.body.type \in OpNames
               /\ response.body.kind = "json"
               /\ response.body.keys = ResultKeys(event.body.type)
            \/ /\ response.statusCode # 200
               /\ response.body.kind = "json"
               /\ response.body.keys = {"error"}

----------------------------------------------------------------------------
(* Dashboard: properties *)

\* C10 as stated: over a non-empty filtered list the average score is the
\* arithmetic mean of the scores and the average duration the arithmetic
\* mean of the durations.
C10_AveragesAreMeans ==
    DashboardView = "DashboardContent" =>
        LET data == filteredData(history, timeRange) IN
        /\ avgScore(data) * Len(data) = SumOf(data, "sleepScore")
        /\ avgDuration(data).whole * Len(data) + avgDuration(data).rest
              = SumOf(data, "duration")

\* the sessions of the example: scores 70, 80, 90 over 25200, 28800, 21600
IsExample(data) ==
    /\ Len(data) = 3
    /\ {<<data[k].sleepScore, data[k].duration>> : k \in 1..3}
          = {<<70, 25200>>, <<80, 28800>>, <<90, 21600>>}

\* C10 amended: over a non-empty filtered list the average score is the
\* arithmetic mean of the scores rounded to the nearest integer (a half
\* rounds up) and the average duration is the arithmetic mean of the
\* durations; the sessions of the example give 80 and 25200.
C10_AveragesRounded ==
    DashboardView = "DashboardContent" =>
        LET data == filteredData(history, timeRange)
            n == Len(data)
            scores == SumOf(data, "sleepScore")
            d == avgDuration(data)
        IN  /\ 2 * scores - n < 2 * n * avgScore(data)
            /\ 2 * n * avgScore(data) <= 2 * scores + n
            /\ d.over = n /\ d.rest \in 0..(n - 1)
            /\ d.whole * n + d.rest = SumOf(data, "duration")
            /\ IsExample(data) =>
                  avgScore(data) = 80 /\ d.whole = 25200 /\ d.rest = 0

\* The dashboard shows the averages of the sessions of the example
C10_Witness ==
    /\ DashboardView = "DashboardContent"
    /\ IsExample(filteredData(history, timeRange))
    /\ avgScore(filteredData(history, timeRange)) = 80

----------------------------------------------------------------------------
(* Alarm evaluation loop: one-shot alarms, list order, store failures *)

\* The tick makes a one-shot alarm the ringing alarm
OneShotEntersRinging ==
    /\ checkAlarms
    /\ ringingAlarm = <<>>
    /\ ringingAlarm' # <<>>
    /\ ringingAlarm'[1].days = {}

\* C11 as stated: a one-shot alarm (empty day-set) that has entered ringing
\* once does not enter ringing again on a later tick, unless the user has
\* switched it on again in between.
C11_FiresOnce ==
    [][OneShotEntersRinging => ringingAlarm'[1].id \notin fired]_vars

\* ascending time strings, equal neighbours allowed
SortedByTime(list) ==
    \A i \in 1..(Len(list) - 1) : ~LexLess(list[i + 1].time, list[i].time)

\* C13: what getAll returns for the stored alarms is in ascending time order,
\* and so is the in-memory list in every state, whatever add, toggle, delete,
\* one-shot deactivation or load has run.
C13_AscendingTime ==
    /\ SortedByTime(getAllAlarms(alarmStore))
    /\ SortedByTime(alarms)

\* list[i] satisfies the firing condition and nothing before it does
IsFirstDue(i) ==
    /\ Fires(alarms[i], now, ignoreForThisMinute)
    /\ \A j \in 1..(i - 1) : ~Fires(alarms[j], now, ignoreForThisMinute)

\* C14: a tick changes the ringing alarm only from none to the first alarm in
\* list order that satisfies the firing condition (one alarm per tick), a
\* tick during ringing leaves the ringing alarm as it is, and whenever an
\* alarm enters ringing nothing was ringing (the one before was dismissed)
\* and the alarm's time is the current minute.
C14_FirstMatchOnly ==
    [][/\ checkAlarms =>
            \/ ringingAlarm' = ringingAlarm
            \/ /\ ringingAlarm = <<>>
               /\ \E i \in 1..Len(alarms) :
                     IsFirstDue(i) /\ ringingAlarm' = <<alarms[i]>>
       /\ (ringingAlarm' # <<>> /\ ringingAlarm' # ringingAlarm) =>
            /\ checkAlarms
            /\ ringingAlarm = <<>>
            /\ ringingAlarm'[1].time = CurrentTime(now)]_vars

\* An alarm rings in the minute in which another one rang and was dismissed
C14_Witness ==
    /\ ringingAlarm # <<>>
    /\ ringingAlarm[1].time = CurrentTime(now)
    /\ \E t \in timers :
          /\ t.live
          /\ t.id # ringingAlarm[1].id
          /\ CurrentTime(t.due - SuppressSeconds) = CurrentTime(now)

OnlyRequestFor(id) ==
    \A k \in 2..Len(pending) : pending[k].id # id

\* C19 as stated: when the store rejects the request of an add, a toggle, a
\* delete or a one-shot deactivation, the in-memory list is what it was
\* before the mutation was requested: the rejection changes nothing in it,
\* and after a rejected toggle the alarm is switched as it was before the
\* toggle.
C19_RejectionLeavesList ==
    [][(Settles(FALSE) /\ Head(pending).op # "getAll") =>
        /\ alarms' = alarms
        /\ (Head(pending).cont = "toggle" /\ OnlyRequestFor(Head(pending).id)) =>
              \A i \in 1..Len(alarms') :
                  alarms'[i].id = Head(pending).id =>
                      alarms'[i].isActive = ~Head(pending).alarm[1].isActive]_vars

\* the alarms of the list and the alarms of the store, as sets of records
InMemory == {alarms[i] : i \in 1..Len(alarms)}
Stored == {alarmStore[x] : x \in DOMAIN alarmStore}

\* C20 as stated: on the mounted alarms view, whenever no store request is
\* in flight and none has been rejected, the in-memory list and the store
\* hold the same alarms with the same field values.
C20_WriteThroughCache ==
    (Mounted /\ pending = <<>> /\ ~rejected) => InMemory = Stored

\* no two entries of the list carry the same id
DistinctIds ==
    \A i, j \in 1..Len(alarms) : alarms[i].id = alarms[j].id => i = j

\* C21 as stated: the ids of the alarms in the in-memory list are pairwise
\* distinct in every state, and the put of an add never lands on an id the
\* store already holds.
C21_FreshIds ==
    /\ []DistinctIds
    /\ [][(Settles(TRUE) /\ Head(pending).cont = "add") =>
            Head(pending).id \notin DOMAIN alarmStore]_vars

----------------------------------------------------------------------------
(* Recording session controller: records, step order, release, start errors *)

\* the session under analysis ends in error / completes
SessionFails == tracker.status = "analyzing" /\ tracker'.status = "error"
SessionCompletes == tracker.status = "analyzing" /\ tracker'.status = "results"

\* the record the session under analysis has made, if any
HasRecord(t, store) ==
    /\ t.analysisData # <<>>
    /\ t.analysisData[1].date \in DOMAIN store

\* C12 as stated: the store never holds more records than sessions were
\* started; a session that reaches results has its record in the store, and
\* a session that ends in error has none.
C12_RecordIffCompleted ==
    /\ [](Cardinality(DOMAIN sessionStore) <= starts)
    /\ [][/\ SessionCompletes => HasRecord(tracker', sessionStore')
          /\ SessionFails => ~HasRecord(tracker', sessionStore')]_vars

\* the step the continuation of the session under analysis is at
StepOf(t) == IF t.analysis = <<>> THEN "none" ELSE t.analysis[1].step

\* the await the continuation is suspended on has settled without throwing
Succeeded(t) ==
    /\ t.analysis # <<>>
    /\ t.analysis[1].reply # <<>>
    /\ ~t.analysis[1].reply[1].thrown

\* C16: a session has one continuation, whose steps only go reading ->
\* analysis request -> persist -> suggestions request; the record is stamped
\* with the completion date when the analysis has returned; the suggestions
\* request is sent only after the persist has succeeded and the record is in
\* the store; results is entered only from the suggestions step, after all
\* three have succeeded.
C16_StepOrder ==
    /\ [](Len(tracker.analysis) <= 1)
    /\ [][/\ StepOf(tracker') # StepOf(tracker) =>
              \/ StepOf(tracker') = "none"
              \/ StepOf(tracker) = "none" /\ StepOf(tracker') = "reading"
              \/ StepOf(tracker) = "reading" /\ StepOf(tracker') = "analyze"
              \/ /\ StepOf(tracker) = "analyze" /\ StepOf(tracker') = "save"
                 /\ Succeeded(tracker)
                 /\ tracker'.analysisData = tracker'.analysis[1].data
                 /\ tracker'.analysisData[1].date = lastStamp'
                 /\ lastStamp' > lastStamp
                 /\ ~HasRecord(tracker', sessionStore')
              \/ /\ StepOf(tracker) = "save" /\ StepOf(tracker') = "suggest"
                 /\ Succeeded(tracker)
                 /\ HasRecord(tracker', sessionStore')
          /\ tracker'.status = "results" /\ tracker.status # "results" =>
              /\ tracker.status = "analyzing"
              /\ StepOf(tracker) = "suggest"
              /\ Succeeded(tracker)
              /\ HasRecord(tracker', sessionStore')]_vars

\* A session has completed: stamped, stored, suggestions received
C16_Witness ==
    /\ tracker.status = "results"
    /\ HasRecord(tracker, sessionStore)
    /\ tracker.healthSuggestions # <<>>
    /\ tracker.healthSuggestions # <<"">>

\* every acquired track stopped, no interval running, no recorder recording
\* or attached
HardwareReleased(t) ==
    /\ t.audioStreamRef = "null" /\ t.orphanStreams = 0 /\ t.lostStreams = 0
    /\ ~t.timerIntervalRef /\ t.orphanIntervals = 0 /\ t.lostIntervals = 0
    /\ t.mediaRecorderRef = "null" /\ t.orphanRecorders = 0
         /\ t.lostRecorders = 0

\* the session that ended in results or error is left, by Done / Try Again
\* or by the view being unmounted
SessionLeft == tracker.status \in {"results", "error"} /\ tracker'.status = "idle"

\* C17 as stated: whenever a session has ended in results or in error, the
\* stream's tracks are stopped, the recorder is stopped and detached and the
\* timer is cleared; and when that session is left, by reset or by the
\* tracker view being unmounted, no object URL created for playback is left
\* unreleased.
C17_ReleasedOnEveryExit ==
    /\ [](tracker.status \in {"results", "error"} => HardwareReleased(tracker))
    /\ [][SessionLeft =>
            HardwareReleased(tracker') /\ tracker'.objectURLs = 0]_vars

IsPrefix(s, t) == Len(s) <= Len(t) /\ SubSeq(t, 1, Len(s)) = s

\* what the debug log holds when a start fails: the entries pushed so far, in
\* the order of the steps, and the error message last
IsStartLog(log) ==
    /\ Len(log) >= 2
    /\ LET steps == SubSeq(log, 1, Len(log) - 1)
       IN  IsPrefix(steps, StartedLog) \/ IsPrefix(steps, EndedLog)
    /\ \A k \in 1..Len(StartedLog) : log[Len(log)] # StartedLog[k]
    /\ log[Len(log)] # EndedLog[Len(EndedLog)]
    /\ log[Len(log)] # ""

\* a start is under way or begins in this step
Starting == tracker.status = "requesting" \/ handleStartTracking

\* C18: a start that finds no capture API fails at once, without asking for
\* the microphone; a start leaves requesting only for tracking or error; it
\* reaches tracking only holding a live stream and a recording recorder; and
\* when it ends in error the debug log is the ordered list of the steps taken
\* with the error message last, and no stream is left live, no recorder and
\* no timer attached.
C18_StartFailureIsError ==
    [][Starting =>
        /\ (handleStartTracking /\ ~mediaDevices) =>
                tracker'.status = "error" /\ tracker'.awaiting = 0
        /\ tracker'.status \in {"requesting", "tracking", "error"}
        /\ tracker'.status = "tracking" =>
                /\ tracker'.audioStreamRef = "live"
                /\ tracker'.mediaRecorderRef = "recording"
        /\ tracker'.status = "error" =>
                /\ IsStartLog(tracker'.error)
                /\ HardwareReleased(tracker')]_vars

\* A start failed after the stream had been acquired
C18_Witness ==
    /\ tracker.status = "error"
    /\ IsStartLog(tracker.error)
    /\ IsPrefix(AcquiredLog, tracker.error)
    /\ Len(tracker.error) <= Len(CreatingLog) + 1
    /\ tracker.audioStreamRef = "null"
    /\ starts > 0

----------------------------------------------------------------------------
(* Dashboard: the filtered list and its views *)

Ranges == {"week", "month", "year"}

\* the window of a range, in days
Window(range) == CASE range = "week" -> 7 [] range = "month" -> 30
                   [] range = "year" -> 365

\* the sessions of a list, and the place of a session in it (dates are keys)
SessionsOf(list) == {list[i] : i \in 1..Len(list)}
PlaceIn(list, x) == CHOOSE i \in 1..Len(list) : list[i] = x

\* C22: for each range, the filtered list holds exactly the loaded sessions
\* dated at or after today minus the window (7, 30 or 365 days), each once
\* and in the order of the loaded list; so the week list is contained in
\* the month list and the month list in the year list.
C22_FilteredWindow ==
    /\ \A range \in Ranges :
        LET f == filteredData(history, range) IN
        /\ SessionsOf(f) =
              {x \in SessionsOf(history) : x.date >= Today - Window(range)}
        /\ \A i, j \in 1..Len(f) :
              i < j => PlaceIn(history, f[i]) < PlaceIn(history, f[j])
    /\ SessionsOf(filteredData(history, "week"))
          \subseteq SessionsOf(filteredData(history, "month"))
    /\ SessionsOf(filteredData(history, "month"))
          \subseteq SessionsOf(filteredData(history, "year"))

\* The week view shows the session of seven days ago and not the one of
\* eight days ago, which the month view shows
C22_Witness ==
    /\ activeView = "dashboard"
    /\ timeRange = "week"
    /\ \E x \in SessionsOf(filteredData(history, "week")) : x.date = Today - 7
    /\ \E x \in SessionsOf(history) :
          /\ x.date = Today - 8
          /\ x \notin SessionsOf(filteredData(history, "week"))
          /\ x \in SessionsOf(filteredData(history, "month"))

(***************************************************************************)
(* Recording session controller: the duration counter                      *)
(***************************************************************************)

\* the stop request of this step is taken by a recording recorder
StopRequested == handleStopAndAnalyze /\ tracker.mediaRecorderRef = "recording"

\* the 'stop' event that carries the onstop of the stop request
RequestedStops(t) == {i \in 1..Len(t.stopEvents) : t.stopEvents[i].handler}

\* C23: the counter is 0 when tracking is entered and goes up by exactly 1
\* with each timer tick while tracking; the duration the analysis request is
\* sent with is the counter's value when the user asked for the stop,
\* whatever the timer has added since
C23_DurationSent ==
    [][/\ (tracker.status # "tracking" /\ tracker'.status = "tracking")
            => tracker'.duration = 0
       /\ (tracker.status = "tracking" /\ tracker'.status = "tracking")
            => IF DurationTick THEN tracker'.duration = tracker.duration + 1
               ELSE tracker'.duration = tracker.duration
       /\ StopRequested
            => /\ RequestedStops(tracker') # {}
               /\ \A i \in RequestedStops(tracker') :
                    tracker'.stopEvents[i].duration = tracker.duration
       /\ (StepOf(tracker) = "none" /\ StepOf(tracker') # "none")
            => /\ RequestedStops(tracker) # {}
               /\ \A i \in RequestedStops(tracker) :
                    tracker'.analysis[1].duration = tracker.stopEvents[i].duration
       /\ (StepOf(tracker) # "none" /\ StepOf(tracker') # "none")
            => tracker'.analysis[1].duration = tracker.analysis[1].duration]_vars

\* the analysis request has been sent and answered with the duration of the
\* stop request, and the timer has counted on since
C23_Witness ==
    /\ tracker.status = "analyzing"
    /\ StepOf(tracker) = "analyze"
    /\ tracker.analysis[1].reply # <<>>
    /\ tracker.analysis[1].duration = 1
    /\ tracker.duration = 2

----------------------------------------------------------------------------
(* Alarm evaluation loop and the active view *)

\* the second after the minute of the 07:00 alarms
MinuteOver == StartClock + 62

DismissedBeforeLeaving(id) ==
    /\ \E t \in timers : t.id = id /\ ~t.live
    /\ \A t \in timers : t.id = id => ~t.live

C26_DeletedStaysDeleted ==
    [][(Settles(TRUE) /\ Head(pending).cont = "deact")
        => /\ Head(pending).id \in DOMAIN alarmStore
           /\ \A i \in 1..Len(alarms') : alarms'[i].id \in DOMAIN alarmStore']_vars

----------------------------------------------------------------------------
(* Recording session controller: the results view, the stop request *)

\* C27: whenever the status is results, the analysis data, the session start
\* time and the playback URL are set, so that the results view is rendered;
\* the analysis data carries the time at which the analysis of this session
\* returned, which is the date of the record the session has stored
C27_ResultsComplete ==
    tracker.status = "results" =>
        /\ tracker.analysisData # <<>>
        /\ tracker.sessionStartTime
        /\ tracker.audioURL
        /\ tracker.analysisData[1].date = lastStamp
        /\ tracker.analysisData[1].date \in DOMAIN sessionStore
        /\ sessionStore[tracker.analysisData[1].date] = tracker.analysisData[1]

\* the results of a session are shown, everything acquired released
C27_Witness ==
    /\ tracker.status = "results"
    /\ activeView = "sleep"
    /\ tracker.analysis = <<>>
    /\ tracker.audioURL
    /\ ~tracker.timerIntervalRef

\* C28 as stated: in tracking a stop request takes the session on to
\* analyzing or error: the recorder is recording, so that the request
\* installs its onstop and stops it, or the 'stop' event of a request
\* already made is on its way
C28_StopLeavesTracking ==
    tracker.status = "tracking" =>
        \/ tracker.mediaRecorderRef = "recording"
        \/ RequestedStops(tracker) # {}

----------------------------------------------------------------------------
(* Dashboard: the averages and the empty views *)

\* C30: with an empty history the empty view is shown, with a non-empty
\* history and an empty window the no-data view; the content, which divides
\* by the length of the window's list, is rendered over a non-empty list only
C30_AveragesOverNonEmpty ==
    LET data == filteredData(history, timeRange) IN
    /\ history = <<>> => DashboardView = "EmptyState"
    /\ (history # <<>> /\ data = <<>>) => DashboardView = "NoDataForRange"
    /\ DashboardView = "DashboardContent" =>
            /\ Len(data) > 0
            /\ avgDuration(data).over > 0
            /\ avgScore(data) \in 70..90

\* a loaded history with sessions of the last year and none of the last
\* month, the month selected
C30_Witness ==
    /\ activeView = "dashboard"
    /\ timeRange = "month"
    /\ history # <<>>
    /\ filteredData(history, "month") = <<>>
    /\ filteredData(history, "year") # <<>>

====
